---------------------------- MODULE Spec2Model ----------------------------
(***************************************************************************)
(* State-machine model of core::table::DistributedTable                    *)
(* (core/table/distributed_table.h): one table object per MPI process, the *)
(* collective Init, the point access get with its request / wait / alias   *)
(* steps, the mailbox entry points and the spatial-index accessors.        *)
(*                                                                         *)
(* The mailbox classes TableInbox / TableOutbox (core/table/mailbox.h) and *)
(* core::table::Table (core/table/table.h) are not among the sources at    *)
(* hand.  Their steps are modelled from the design description (sections   *)
(* 4.2-4.4), inside the interface that get fixes: a request goes to the    *)
(* owner on the outbox communicator, the caller waits on the inbox         *)
(* communicator for a message sent by its own rank, and then aliases the   *)
(* buffer of its own table_inbox_ under the key (requested_rank, point_id).*)
(***************************************************************************)
EXTENDS Integers, Sequences, FiniteSets, TLC

\* Largest communicator group that is explored.
MaxProcs == 3
\* Number of points of the data set that is split over the processes.
MaxPoints == 2
\* Number of attributes of every point of the data set.
AttrCount == 2
\* Number of get calls explored in one run (over all processes).
MaxGets == 2

VARIABLES
  comm_size,                      \* size of the communicator group
  global_m_file_,                 \* per process: the global arena pointer
  pc,                             \* per process: where its computation stands
  err,                            \* per process: the fatal condition it ended in
  table_inbox_,                   \* per process: handle and object
  table_outbox_,
  owned_table_,
  local_n_entries_,
  global_tree_,
  table_outbox_group_comm_size_,
  all_gather,                     \* values contributed to the collective of Init
  table_outbox_group_comm,        \* messages in flight, requests
  table_inbox_group_comm,         \* messages in flight, points and notifications
  call,                           \* per process: the get call in progress or last returned
  entry,                          \* per process: the out parameter of get
  gets_left,                      \* get calls still to be explored
  ret,                            \* the most recent accessor call and its result
  computation_group_comm,         \* messages in flight of the numerical work
  released,                       \* per process: what its destructor released, in order
  outstanding,                    \* per process: requests sent minus notifications consumed
  tally,                          \* per process: how often its inbox staged, notified and
                                  \* unlocked, and how many fetches of its get returned
  kd                              \* the call of nbr_utils::LoadKdTree in this process

vars == << comm_size, global_m_file_, pc, err, table_inbox_, table_outbox_,
           owned_table_, local_n_entries_, global_tree_,
           table_outbox_group_comm_size_, all_gather,
           table_outbox_group_comm, table_inbox_group_comm,
           call, entry, gets_left, ret, computation_group_comm, released,
           outstanding, tally, kd >>

Ranks == 0 .. (comm_size - 1)

\* Arguments explored for rank and point id parameters: every valid value,
\* the first value past the end, and -1.
RankArgs == -1 .. comm_size

-----------------------------------------------------------------------------
(* Handles.  A handle is a record with a field loc: "null", "arena" (the    *)
(* object lives in the memory mapped file) or "heap" (operator new).        *)

NULL == [loc |-> "null"]

IsNull(h) == h.loc = "null"

\* The point a process finds at position i (0-based) of its file.
PointOf(r, i) == [k \in 1 .. AttrCount |->
                    IF k = 1 THEN r ELSE IF k = 2 THEN i ELSE r + i + k]

\* The file a process loads: n points of AttrCount attributes each.
FileOf(r, n) == [i \in 1 .. n |-> PointOf(r, i - 1)]

NoCall == [status |-> "none", rank |-> -1, id |-> -1, steps |-> << >>,
           recv_from |-> -1, ack_from |-> -1]
NoEntry == [buf |-> "none", rank |-> -1, id |-> -1, n |-> 0, held |-> FALSE]
NoRet == [op |-> "none", proc |-> -1, arg |-> -1, kind |-> "none", value |-> -1]
NoKd == [pc |-> "none"]
NoTally == [staged |-> 0, notified |-> 0, unlocked |-> 0, fetched |-> 0]

-----------------------------------------------------------------------------
(* DistributedTable() *)

Constructor ==
  /\ comm_size \in 1 .. MaxProcs
  /\ global_m_file_ \in [Ranks -> {"null", "arena"}]
  /\ pc = [p \in Ranks |-> "constructed"]
  /\ err = [p \in Ranks |-> "none"]
  /\ table_inbox_ = [p \in Ranks |-> NULL]
  /\ table_outbox_ = [p \in Ranks |-> NULL]
  /\ owned_table_ = [p \in Ranks |-> NULL]
  /\ local_n_entries_ = [p \in Ranks |-> NULL]
  /\ global_tree_ = [p \in Ranks |-> NULL]
  /\ table_outbox_group_comm_size_ = [p \in Ranks |-> -1]
  /\ all_gather = [p \in Ranks |-> -1]
  /\ table_outbox_group_comm = {}
  /\ table_inbox_group_comm = {}
  /\ call = [p \in Ranks |-> NoCall]
  /\ entry = [p \in Ranks |-> NoEntry]
  /\ gets_left = MaxGets
  /\ ret = NoRet
  /\ computation_group_comm = {}
  /\ released = [p \in Ranks |-> << >>]
  /\ outstanding = [p \in Ranks |-> 0]
  /\ tally = [p \in Ranks |-> NoTally]
  /\ kd = NoKd

\* A fatal condition on one rank ends the whole job: the failures of this
\* core are process-fatal and no rank is meant to survive a peer's crash.
JobAlive == \A p \in Ranks : pc[p] # "fatal"

-----------------------------------------------------------------------------
(* Collaborators that are not in the sources at hand. *)

\* Table::Init(file_name): the partition a process loads.
TableInit(loc, p, n) ==
  [loc |-> loc, points |-> FileOf(p, n), n_attributes |-> AttrCount]

\* Table::n_entries()
TableNEntries(t) == Len(t.points)

\* Table::get(point_id, entry): the id is validated against [0, n_entries).
TableGetInRange(t, point_id) == point_id >= 0 /\ point_id < TableNEntries(t)

\* The table after Table::get(point_id, entry): the lookup only reads, the
\* point stays where it is.
TableAfterGetMutant(t, point_id) == [t EXCEPT !.points[point_id + 1] = << >>]
TableAfterGet(t, point_id) == t

\* The storage Table::get refers to; past the end of the partition there is no
\* point, only whatever the memory holds.
TablePoint(t, point_id) ==
  IF point_id + 1 \in DOMAIN t.points THEN t.points[point_id + 1] ELSE << >>

\* TableInbox::Init(n_attributes): an empty staging buffer.
TableInboxInit(loc, n) ==
  [loc |-> loc, staged |-> {}, handling |-> {}, n_attributes |-> n]

\* TableInbox::get_point(rank, point_id): the staged entries under that key.
TableInboxGetPoint(inbox, rank, point_id) ==
  {e \in inbox.staged : e.rank = rank /\ e.id = point_id}

\* Point ids explored for a call of process p that names rank r: every id of
\* that rank's partition and the first id past its end; -1 as well on the
\* local path (a request for -1 and one for the first id past the end take
\* the same way through the owner).
PointIdArgs(p, r) ==
  IF r \in Ranks /\ ~IsNull(owned_table_[r])
  THEN (IF r = p THEN -1 ELSE 0) .. TableNEntries(owned_table_[r])
  ELSE {0}

\* Points already loaded by the processes that have run Init.
RECURSIVE SumUpTo(_, _)
SumUpTo(f, k) == IF k < 0 THEN 0 ELSE f[k] + SumUpTo(f, k - 1)

Loaded == SumUpTo([r \in Ranks |-> IF all_gather[r] < 0 THEN 0 ELSE all_gather[r]],
                  comm_size - 1)

\* Partition sizes explored for the file of process p: the data set of
\* MaxPoints points is split over the files of the processes, in any way, and
\* the last process to load takes what is left.
PartitionSizes(p) ==
  IF \A r \in Ranks \ {p} : all_gather[r] >= 0
  THEN {MaxPoints - Loaded}
  ELSE 0 .. (MaxPoints - Loaded)

-----------------------------------------------------------------------------
(* Init(file_name, communicator), up to the blocking all_gather. *)

Init(p, n) ==
  /\ JobAlive
  /\ pc[p] = "constructed"
  /\ LET loc == IF global_m_file_[p] = "arena" THEN "arena" ELSE "heap"
         table == TableInit(loc, p, n)
     IN  /\ owned_table_' = [owned_table_ EXCEPT ![p] = table]
         /\ IF global_m_file_[p] = "null"
            THEN \* global_m_file_->UniqueConstruct on a null pointer
                 /\ pc' = [pc EXCEPT ![p] = "fatal"]
                 /\ err' = [err EXCEPT ![p] = "NullArena"]
                 /\ UNCHANGED << table_outbox_, table_inbox_,
                                 table_outbox_group_comm_size_,
                                 local_n_entries_, all_gather >>
            ELSE /\ table_outbox_' = [table_outbox_ EXCEPT ![p] = [loc |-> "arena"]]
                 /\ table_inbox_' = [table_inbox_ EXCEPT ![p] =
                                       TableInboxInit("arena", table.n_attributes)]
                 /\ table_outbox_group_comm_size_' =
                      [table_outbox_group_comm_size_ EXCEPT ![p] = comm_size]
                 /\ local_n_entries_' = [local_n_entries_ EXCEPT ![p] =
                      [loc |-> loc, data |-> [r \in Ranks |-> -1]]]
                 /\ all_gather' = [all_gather EXCEPT ![p] = TableNEntries(table)]
                 /\ pc' = [pc EXCEPT ![p] = "Init_all_gather"]
                 /\ UNCHANGED err
  /\ UNCHANGED << computation_group_comm, released, kd, tally, outstanding, comm_size, global_m_file_, global_tree_,
                  table_outbox_group_comm, table_inbox_group_comm,
                  call, entry, gets_left, ret >>

\* boost::mpi::all_gather: what process p finds in its array afterwards, the
\* value of every rank at the index of that rank.
AllGatherResultMutant(p) == [r \in Ranks |-> all_gather[p]]
AllGatherResult(p) == [r \in Ranks |-> all_gather[r]]

(* The all_gather of Init returns once every rank has contributed. *)
InitAllGather(p) ==
  /\ JobAlive
  /\ pc[p] = "Init_all_gather"
  /\ \A r \in Ranks : all_gather[r] >= 0
  /\ local_n_entries_' = [local_n_entries_ EXCEPT ![p].data = AllGatherResult(p)]
  /\ pc' = [pc EXCEPT ![p] = "ready"]
  /\ UNCHANGED << computation_group_comm, released, kd, tally, outstanding, comm_size, global_m_file_, err, table_inbox_, table_outbox_,
                  owned_table_, global_tree_, table_outbox_group_comm_size_,
                  all_gather, table_outbox_group_comm, table_inbox_group_comm,
                  call, entry, gets_left, ret >>

-----------------------------------------------------------------------------
(* Messages.  Every message carries the sender and the destination rank,   *)
(* the tag, and the fields of its body (unused ones are -1 and << >>).     *)

Msg(src, dst, tag, rank, id, point) ==
  [src |-> src, dst |-> dst, tag |-> tag, rank |-> rank, id |-> id, point |-> point]

\* PointRequestMessage(rank, point_id), tagged REQUEST_POINT_FROM_TABLE_OUTBOX.
PointRequestMessage(src, dst, point_id) ==
  Msg(src, dst, "REQUEST_POINT_FROM_TABLE_OUTBOX", src, point_id, << >>)

\* The notification get waits for, tagged RECEIVE_POINT_FROM_TABLE_INBOX.
ReceivePointMessage(src, dst) ==
  Msg(src, dst, "RECEIVE_POINT_FROM_TABLE_INBOX", -1, -1, << >>)

\* communicator::send(dest, tag, value), which is MPI_Send.  A rank of the
\* group gets the message.  MPI_PROC_NULL, a negative constant whose value the
\* MPI implementation chooses, is a valid destination as well: the send to it
\* succeeds and delivers nothing.  Any other rank is an error of the MPI layer,
\* which get does not handle.
SendOutcomes(dest) ==
  IF dest \in Ranks THEN {"delivered"}
  ELSE IF dest < 0 THEN {"null_process", "error"}
  ELSE {"error"}

-----------------------------------------------------------------------------
(* get(outbox_comm, inbox_comm, requested_rank, point_id, entry) *)

\* The test that chooses the local path.
getIsLocalMutant(p, requested_rank) == FALSE
getIsLocal(p, requested_rank) == p = requested_rank

\* The communicator the request is sent on.
getSendCommMutant(p) == "computation_group_comm"
getSendComm(p) == "table_outbox_group_comm"

\* The rank the request is sent to.
getSendDestMutant(p, requested_rank) == (requested_rank + 1) % comm_size
getSendDest(p, requested_rank) == requested_rank

\* Where the caller stands after the send: in the blocking receive.
getAfterSendMutant(p) == "ready"
getAfterSend(p) == "get_recv"

\* The source rank named by the blocking receive.
getRecvSourceMutant(p, requested_rank) == requested_rank
getRecvSource(p, requested_rank) == p

\* The key under which the arrived point is looked up in table_inbox_.
getAliasKeyMutant(p, requested_rank, point_id) == [rank |-> requested_rank, id |-> 0]
getAliasKey(p, requested_rank, point_id) == [rank |-> requested_rank, id |-> point_id]

\* A process ends in a fatal condition.
Fatal(p, what) ==
  /\ pc' = [pc EXCEPT ![p] = "fatal"]
  /\ err' = [err EXCEPT ![p] = what]

\* The call, up to its return (local path) or to the blocking receive.
get(p, requested_rank, point_id) ==
  /\ JobAlive
  /\ pc[p] = "ready"
  /\ gets_left > 0
  /\ gets_left' = gets_left - 1
  /\ IF getIsLocal(p, requested_rank)
     THEN \* owned_table_->get(point_id, entry)
          /\ IF TableGetInRange(owned_table_[p], point_id)
             THEN /\ entry' = [entry EXCEPT ![p] =
                         [buf |-> "owned", rank |-> p, id |-> point_id,
                          n |-> owned_table_[p].n_attributes, held |-> TRUE]]
                  /\ call' = [call EXCEPT ![p] =
                         [status |-> "returned", rank |-> requested_rank,
                          id |-> point_id, steps |-> << "local" >>,
                          recv_from |-> -1, ack_from |-> -1]]
                  /\ UNCHANGED << pc, err >>
             ELSE /\ Fatal(p, "IndexOutOfRange")
                  /\ call' = [call EXCEPT ![p] =
                         [status |-> "failed", rank |-> requested_rank,
                          id |-> point_id, steps |-> << "local" >>,
                          recv_from |-> -1, ack_from |-> -1]]
                  /\ UNCHANGED entry
          /\ UNCHANGED << table_outbox_group_comm, computation_group_comm,
                          outstanding >>
     ELSE \* table_outbox_group_comm_in.send(requested_rank, REQUEST_POINT..., message)
          \E sent \in SendOutcomes(getSendDest(p, requested_rank)) :
            IF sent = "error"
            THEN /\ Fatal(p, "AddressingError")
                 /\ call' = [call EXCEPT ![p] =
                        [status |-> "failed", rank |-> requested_rank,
                         id |-> point_id, steps |-> << >>,
                         recv_from |-> -1, ack_from |-> -1]]
                 /\ UNCHANGED << entry, table_outbox_group_comm,
                                 computation_group_comm, outstanding >>
            ELSE /\ LET request ==
                        IF sent = "delivered"
                        THEN {PointRequestMessage(p, getSendDest(p, requested_rank),
                                                  point_id)}
                        ELSE {}
                    IN  /\ table_outbox_group_comm' = table_outbox_group_comm \cup
                             (IF getSendComm(p) = "table_outbox_group_comm"
                              THEN request ELSE {})
                        /\ computation_group_comm' = computation_group_comm \cup
                             (IF getSendComm(p) = "computation_group_comm"
                              THEN request ELSE {})
                 /\ call' = [call EXCEPT ![p] =
                        [status |-> "pending", rank |-> requested_rank,
                         id |-> point_id, steps |-> << "send" >>,
                         recv_from |-> getRecvSource(p, requested_rank),
                         ack_from |-> -1]]
                 /\ outstanding' = [outstanding EXCEPT ![p] = @ + 1]
                 /\ pc' = [pc EXCEPT ![p] = getAfterSend(p)]
                 /\ UNCHANGED << err, entry >>
  /\ owned_table_' =
       IF getIsLocal(p, requested_rank) /\ TableGetInRange(owned_table_[p], point_id)
       THEN [owned_table_ EXCEPT ![p] = TableAfterGet(@, point_id)]
       ELSE owned_table_
  /\ UNCHANGED << released, kd, tally, comm_size, global_m_file_, table_inbox_,
                  table_outbox_, local_n_entries_, global_tree_,
                  table_outbox_group_comm_size_, all_gather,
                  table_inbox_group_comm, ret >>

\* The blocking receive returns, and the staged buffer is aliased into entry.
getRecv(p) ==
  /\ JobAlive
  /\ pc[p] = "get_recv"
  /\ \E m \in table_inbox_group_comm :
       /\ m.dst = p
       /\ m.src = call[p].recv_from
       /\ m.tag = "RECEIVE_POINT_FROM_TABLE_INBOX"
       /\ table_inbox_group_comm' = table_inbox_group_comm \ {m}
       /\ LET key == getAliasKey(p, call[p].rank, call[p].id)
              found == TableInboxGetPoint(table_inbox_[p], key.rank, key.id)
          IN  entry' = [entry EXCEPT ![p] =
                 [buf |-> IF found = {} THEN "null" ELSE "inbox",
                  rank |-> key.rank, id |-> key.id,
                  n |-> owned_table_[p].n_attributes, held |-> found # {}]]
       /\ call' = [call EXCEPT ![p].status = "returned",
                               ![p].steps = @ \o << "recv", "alias" >>,
                               ![p].ack_from = m.src]
  /\ pc' = [pc EXCEPT ![p] = "ready"]
  /\ outstanding' = [outstanding EXCEPT ![p] = @ - 1]
  /\ tally' = [tally EXCEPT ![p].fetched = @ + 1]
  /\ UNCHANGED << computation_group_comm, released, kd, comm_size, global_m_file_, err, table_inbox_, table_outbox_,
                  owned_table_, local_n_entries_, global_tree_,
                  table_outbox_group_comm_size_, all_gather,
                  table_outbox_group_comm, gets_left, ret >>

\* What a read through entry yields now: the first n attributes of every
\* buffer the alias can refer to (none when the buffer is gone).
AliasValues(p) ==
  LET e == entry[p]
  IN  IF e.buf = "owned"
      THEN {SubSeq(TablePoint(owned_table_[p], e.id), 1, e.n)}
      ELSE IF e.buf = "inbox"
      THEN {SubSeq(s.point, 1, e.n) :
              s \in TableInboxGetPoint(table_inbox_[p], e.rank, e.id)}
      ELSE {}

-----------------------------------------------------------------------------
(* The mailbox loops and UnlockPoint.                                        *)
(*                                                                           *)
(* TableInbox and TableOutbox are defined in core/table/mailbox.h, which is  *)
(* not among the sources.  distributed_table.h fixes this much of them:      *)
(*   - the request is sent to requested_rank on the outbox communicator with *)
(*     the tag REQUEST_POINT_FROM_TABLE_OUTBOX: it asks the table outbox of  *)
(*     that rank for the point (lines 249-253);                              *)
(*   - the caller then waits "until the point has arrived" (line 255): for a *)
(*     message that its own rank sends on the inbox communicator, tagged     *)
(*     RECEIVE_POINT_FROM_TABLE_INBOX, whose body is an int that get throws  *)
(*     away (lines 256-260);                                                 *)
(*   - the point is then read from the caller's own table_inbox_, with       *)
(*     get_point(requested_rank, point_id) (lines 263-265);                  *)
(*   - UnlockPoint takes no argument and acts on the own table_inbox_        *)
(*     (lines 56-58);                                                        *)
(*   - each mailbox has a loop, Run, on the three communicators (60-76).     *)
(* The design description (4.3) has the Inbox of the owner serve the         *)
(* request, stage the point under (requesting rank, point id) and answer     *)
(* with a token of its own.  get is not written against such a mailbox: a    *)
(* token of the owner would never match the receive of line 258, and         *)
(* nothing would be staged where line 264 reads.  The loops below are the    *)
(* ones get is written against; from 4.2-4.3 they take what the header       *)
(* leaves open: the owner looks the point up in its table, which validates   *)
(* the id; the point is staged in a retained buffer, and only then is the    *)
(* notification, a token, sent; UnlockPoint releases a staged entry.         *)

Running(p) == JobAlive /\ pc[p] \in {"ready", "get_recv"}

\* RunOutbox: one round of the loop of the table outbox of the owner.  It
\* receives a request from any sender and looks the point up in the owned
\* table; the point goes to the inbox of the requester.  An id outside the
\* partition ends the owner with IndexOutOfRange (4.2, 7); the requester is
\* told nothing.
RunOutbox(r) ==
  /\ Running(r)
  /\ \E m \in table_outbox_group_comm :
       /\ m.dst = r
       /\ m.tag = "REQUEST_POINT_FROM_TABLE_OUTBOX"
       /\ table_outbox_group_comm' = table_outbox_group_comm \ {m}
       /\ IF TableGetInRange(owned_table_[r], m.id)
          THEN /\ table_inbox_group_comm' = table_inbox_group_comm \cup
                    {Msg(r, m.rank, "POINT", r, m.id, TablePoint(owned_table_[r], m.id))}
               /\ owned_table_' = [owned_table_ EXCEPT ![r] = TableAfterGet(@, m.id)]
               /\ UNCHANGED << pc, err >>
          ELSE /\ Fatal(r, "IndexOutOfRange")
               /\ UNCHANGED << table_inbox_group_comm, owned_table_ >>
  /\ UNCHANGED << computation_group_comm, released, kd, tally, outstanding, comm_size, global_m_file_, table_inbox_, table_outbox_,
                  local_n_entries_, global_tree_,
                  table_outbox_group_comm_size_, all_gather,
                  call, entry, gets_left, ret >>

\* The Inbox stages a point that has arrived.  The key is the one get looks
\* the point up with (line 264): the rank that owns the point, and its id.
TableInboxStage(inbox, m) ==
  [inbox EXCEPT !.staged = @ \cup {[rank |-> m.rank, id |-> m.id, point |-> m.point]}]

\* What a round of the Inbox does with an arrived point, in its order: it
\* stages the point and then sends the notification (4.3, 6: the token is
\* sent once the point is staged for aliasing).
InboxOrderMutant(q) == << "notify", "stage" >>
InboxOrder(q) == << "stage", "notify" >>

\* The inbox after the step op of a round that handles message m.
InboxStep(inbox, op, m) ==
  IF op = "stage" THEN TableInboxStage(inbox, m) ELSE inbox

\* What the step op of a round of the Inbox of q sends: the notification is
\* a token from q to itself on the inbox communicator.
InboxSends(q, op) ==
  IF op = "notify" THEN {ReceivePointMessage(q, q)} ELSE {}

\* The count of the step op in the tally of the Inbox.
InboxTally(t, op) ==
  IF op = "stage" THEN [t EXCEPT !.staged = @ + 1]
                  ELSE [t EXCEPT !.notified = @ + 1]

\* The message a round of the Inbox is busy with.
HandlingIn(inbox) == IF IsNull(inbox) THEN {} ELSE inbox.handling

\* RunInbox: a round of the loop of the table inbox of the requester, up to
\* the first of its two steps.  It receives an arrived point and stages it.
RunInbox(q) ==
  /\ Running(q)
  /\ HandlingIn(table_inbox_[q]) = {}
  /\ \E m \in table_inbox_group_comm :
       /\ m.dst = q
       /\ m.tag = "POINT"
       /\ table_inbox_' = [table_inbox_ EXCEPT ![q] =
             [InboxStep(@, InboxOrder(q)[1], m) EXCEPT !.handling = {m}]]
       /\ table_inbox_group_comm' =
             (table_inbox_group_comm \ {m}) \cup InboxSends(q, InboxOrder(q)[1])
  /\ tally' = [tally EXCEPT ![q] = InboxTally(@, InboxOrder(q)[1])]
  /\ UNCHANGED << computation_group_comm, released, kd, outstanding, comm_size, global_m_file_, pc, err, table_outbox_,
                  owned_table_, local_n_entries_, global_tree_,
                  table_outbox_group_comm_size_, all_gather,
                  table_outbox_group_comm, call, entry, gets_left, ret >>

\* The second step of the round: the Inbox notifies its own process that the
\* point is ready, and the round is over.
RunInboxNotify(q) ==
  /\ Running(q)
  /\ \E m \in HandlingIn(table_inbox_[q]) :
       /\ table_inbox_' = [table_inbox_ EXCEPT ![q] =
             [InboxStep(@, InboxOrder(q)[2], m) EXCEPT !.handling = {}]]
       /\ table_inbox_group_comm' =
             table_inbox_group_comm \cup InboxSends(q, InboxOrder(q)[2])
  /\ tally' = [tally EXCEPT ![q] = InboxTally(@, InboxOrder(q)[2])]
  /\ UNCHANGED << computation_group_comm, released, kd, outstanding, comm_size, global_m_file_, pc, err, table_outbox_,
                  owned_table_, local_n_entries_, global_tree_,
                  table_outbox_group_comm_size_, all_gather,
                  table_outbox_group_comm, call, entry, gets_left, ret >>

\* TableInbox::UnlockPoint(): releases a staged entry, if there is one.  The
\* call names no entry; any staged one may be the one released.
TableInboxUnlockPointMutant(inbox, e) == [inbox EXCEPT !.staged = {}]
TableInboxUnlockPoint(inbox, e) == [inbox EXCEPT !.staged = @ \ {e}]

\* The inbox UnlockPointinTableInbox acts on.
UnlockTargetMutant(p) == (p + 1) % comm_size
UnlockTarget(p) == p

\* UnlockPointinTableInbox().  The caller gives up the alias it holds into the
\* released buffer (entry.held records that it did so itself).  With nothing
\* staged the call changes nothing.
UnlockPointinTableInbox(p) ==
  /\ JobAlive
  /\ pc[p] = "ready"
  /\ LET t == UnlockTarget(p)
     IN  /\ ~IsNull(table_inbox_[t])
         /\ table_inbox_[t].staged # {}
         /\ \E e \in table_inbox_[t].staged :
              /\ table_inbox_' = [table_inbox_ EXCEPT ![t] = TableInboxUnlockPoint(@, e)]
              /\ entry' = [entry EXCEPT ![p].held =
                    @ /\ ~(entry[p].buf = "inbox" /\ entry[p].rank = e.rank
                                                  /\ entry[p].id = e.id)]
  /\ tally' = [tally EXCEPT ![p].unlocked = @ + 1]
  /\ UNCHANGED << computation_group_comm, released, kd, outstanding, comm_size, global_m_file_, pc, err, table_outbox_,
                  owned_table_, local_n_entries_, global_tree_,
                  table_outbox_group_comm_size_, all_gather,
                  table_outbox_group_comm, table_inbox_group_comm,
                  call, gets_left, ret >>

-----------------------------------------------------------------------------
(* The numerical work of the processes, which has the third communicator to *)
(* itself.                                                                   *)

\* Largest number of computation messages in flight.
MaxComputationMsgs == 1

\* The computation of process p sends a message to process q.
ComputationSend(p, q) ==
  /\ JobAlive
  /\ pc[p] = "ready"
  /\ Cardinality(computation_group_comm) < MaxComputationMsgs
  /\ computation_group_comm' = computation_group_comm \cup
        {Msg(p, q, "COMPUTATION", -1, -1, << >>)}
  /\ UNCHANGED << released, kd, tally, outstanding, comm_size, global_m_file_, pc, err, table_inbox_,
                  table_outbox_, owned_table_, local_n_entries_, global_tree_,
                  table_outbox_group_comm_size_, all_gather,
                  table_outbox_group_comm, table_inbox_group_comm,
                  call, entry, gets_left, ret >>

\* The computation of process q receives a message sent to it.
ComputationRecv(q) ==
  /\ JobAlive
  /\ pc[q] = "ready"
  /\ \E m \in computation_group_comm :
       /\ m.dst = q
       /\ m.tag = "COMPUTATION"
       /\ computation_group_comm' = computation_group_comm \ {m}
  /\ UNCHANGED << released, kd, tally, outstanding, comm_size, global_m_file_, pc, err, table_inbox_,
                  table_outbox_, owned_table_, local_n_entries_, global_tree_,
                  table_outbox_group_comm_size_, all_gather,
                  table_outbox_group_comm, table_inbox_group_comm,
                  call, entry, gets_left, ret >>

-----------------------------------------------------------------------------
(* Save, IndexData and the accessors.  A call is recorded in ret together   *)
(* with what it gave back to the caller.                                    *)

Returned(op, p, arg, kind, value) ==
  [op |-> op, proc |-> p, arg |-> arg, kind |-> kind, value |-> value]

\* The process is in its own computation and can call into the table.
Computing(p) == JobAlive /\ pc[p] \in {"constructed", "ready"}

\* Save(file_name): the body is empty.
SaveMutant(p) ==
  /\ Computing(p)
  /\ ret' = Returned("Save", p, -1, "void", -1)
  /\ global_tree_' = [global_tree_ EXCEPT ![p] = [loc |-> "heap"]]
  /\ UNCHANGED << computation_group_comm, released, kd, tally, outstanding, comm_size, global_m_file_,
                  pc, err, table_inbox_, table_outbox_, owned_table_,
                  local_n_entries_, table_outbox_group_comm_size_, all_gather,
                  table_outbox_group_comm, table_inbox_group_comm,
                  call, entry, gets_left >>
Save(p) ==
  /\ Computing(p)
  /\ ret' = Returned("Save", p, -1, "void", -1)
  /\ UNCHANGED << computation_group_comm, released, kd, tally, outstanding, comm_size, global_m_file_, pc, err, table_inbox_, table_outbox_,
                  owned_table_, local_n_entries_, global_tree_,
                  table_outbox_group_comm_size_, all_gather,
                  table_outbox_group_comm, table_inbox_group_comm,
                  call, entry, gets_left >>

\* The tree IndexData leaves in global_tree_: the body is empty, the handle
\* keeps the value it had.
IndexDataTree(p) == global_tree_[p]

\* IndexData(metric_in, sample_probability_in)
IndexData(p) ==
  /\ Computing(p)
  /\ global_tree_' = [global_tree_ EXCEPT ![p] = IndexDataTree(p)]
  /\ ret' = Returned("IndexData", p, -1, "void", -1)
  /\ UNCHANGED << computation_group_comm, released, kd, tally, outstanding, comm_size, global_m_file_, pc, err, table_inbox_, table_outbox_,
                  owned_table_, local_n_entries_,
                  table_outbox_group_comm_size_, all_gather,
                  table_outbox_group_comm, table_inbox_group_comm,
                  call, entry, gets_left >>

\* IsIndexed()
IsIndexed(p) == ~IsNull(global_tree_[p])

\* get_tree(): the handle itself, null or not.
get_tree(p) == global_tree_[p]

\* What a member access through a null pointer can do: the process dies, or
\* the call goes on with whatever the memory holds.
NullDerefOutcomes == {"crash", "garbage"}

\* The caller of an accessor receives kind and value; a crash ends the process.
Deliver(op, p, arg, kind, value) ==
  /\ ret' = Returned(op, p, arg, kind, value)
  /\ IF kind = "crash"
     THEN Fatal(p, "NullDeref")
     ELSE UNCHANGED << pc, err >>
  /\ UNCHANGED << computation_group_comm, released, kd, tally, outstanding, comm_size, global_m_file_, table_inbox_, table_outbox_,
                  owned_table_, local_n_entries_, global_tree_,
                  table_outbox_group_comm_size_, all_gather,
                  table_outbox_group_comm, table_inbox_group_comm,
                  call, entry, gets_left >>

CallIsIndexed(p) ==
  /\ Computing(p)
  /\ Deliver("IsIndexed", p, -1, "value", IF IsIndexed(p) THEN 1 ELSE 0)

\* The value delivered for a pointer: 0 for null, 1 for an object.
CallGetTree(p) ==
  /\ Computing(p)
  /\ Deliver("get_tree", p, -1, "value", IF IsNull(get_tree(p)) THEN 0 ELSE 1)

\* get_node_bound, get_node_left_child, get_node_right_child, node_is_leaf,
\* get_node_stat, get_node_count: each dereferences the node it is given.
NodeAccessors == {"get_node_bound", "get_node_left_child", "get_node_right_child",
                  "node_is_leaf", "get_node_stat", "get_node_count"}

\* The outcomes of an accessor applied to node: no test precedes the access.
NodeAccess(node) ==
  IF IsNull(node) THEN NullDerefOutcomes ELSE {"value"}

\* A node accessor applied to the root that get_tree hands out.
CallNodeAccessor(p, op) ==
  /\ Computing(p)
  /\ \E kind \in NodeAccess(get_tree(p)) : Deliver(op, p, -1, kind, -1)

\* PrintTree(): global_tree_->Print()
PrintTree(p) ==
  /\ Computing(p)
  /\ \E kind \in NodeAccess(global_tree_[p]) : Deliver("PrintTree", p, -1, kind, -1)

\* local_n_entries(rank_in): the outcomes of the call.  Only the upper end of
\* the rank is tested; an index outside the array reads whatever is there, or
\* ends the process.
local_n_entriesMutant(p, rank_in) ==
  IF rank_in > table_outbox_group_comm_size_[p]
  THEN {[kind |-> "InvalidRank", value |-> -1]}
  ELSE IF ~IsNull(local_n_entries_[p]) /\ rank_in \in DOMAIN local_n_entries_[p].data
  THEN {[kind |-> "value", value |-> local_n_entries_[p].data[rank_in]]}
  ELSE {[kind |-> "wild_read", value |-> v] : v \in -1 .. MaxPoints}
         \cup {[kind |-> "crash", value |-> -1]}
local_n_entries(p, rank_in) ==
  IF rank_in >= table_outbox_group_comm_size_[p]
  THEN {[kind |-> "InvalidRank", value |-> -1]}
  ELSE IF ~IsNull(local_n_entries_[p]) /\ rank_in \in DOMAIN local_n_entries_[p].data
  THEN {[kind |-> "value", value |-> local_n_entries_[p].data[rank_in]]}
  ELSE {[kind |-> "wild_read", value |-> v] : v \in -1 .. MaxPoints}
         \cup {[kind |-> "crash", value |-> -1]}

CallLocalNEntries(p, rank_in) ==
  /\ Computing(p)
  /\ \E o \in local_n_entries(p, rank_in) :
       Deliver("local_n_entries", p, rank_in, o.kind, o.value)

\* local_n_entries(): owned_table_->n_entries()
local_n_entries_self(p) ==
  IF IsNull(owned_table_[p])
  THEN {[kind |-> k, value |-> -1] : k \in NullDerefOutcomes}
  ELSE {[kind |-> "value", value |-> TableNEntries(owned_table_[p])]}

CallLocalNEntriesSelf(p) ==
  /\ Computing(p)
  /\ \E o \in local_n_entries_self(p) :
       Deliver("local_n_entries_self", p, -1, o.kind, o.value)

\* Ranks explored as the argument of local_n_entries.
RankInArgs == -2 .. comm_size

-----------------------------------------------------------------------------
(* ~DistributedTable().  The body is a chain of five guarded releases; pc    *)
(* names the member the destructor tests next.                               *)

DestructorSteps == {"~table_outbox_", "~table_inbox_", "~local_n_entries_",
                    "~owned_table_", "~global_tree_"}

\* The first member the body turns to.
DestructorFirst == "~table_outbox_"

\* The member the body turns to after it is done with member c.
DestructorAfterMutant(c) ==
  CASE c = "~table_outbox_" -> "~owned_table_"
    [] c = "~owned_table_" -> "~local_n_entries_"
    [] c = "~local_n_entries_" -> "~table_inbox_"
    [] c = "~table_inbox_" -> "~global_tree_"
    [] c = "~global_tree_" -> "destroyed"
DestructorAfter(c) ==
  CASE c = "~table_outbox_" -> "~table_inbox_"
    [] c = "~table_inbox_" -> "~local_n_entries_"
    [] c = "~local_n_entries_" -> "~owned_table_"
    [] c = "~owned_table_" -> "~global_tree_"
    [] c = "~global_tree_" -> "destroyed"

\* One release: the member, the call that released it, and where the object
\* had been allocated.
Release(what, via, h) == [what |-> what, via |-> via, loc |-> h.loc]

\* The destructor runs when the object goes out of scope in its process.
Destructor(p) ==
  /\ Computing(p)
  /\ pc' = [pc EXCEPT ![p] = DestructorFirst]
  /\ UNCHANGED << computation_group_comm, released, kd, tally, outstanding, comm_size, global_m_file_,
                  err, table_inbox_, table_outbox_, owned_table_,
                  local_n_entries_, global_tree_, table_outbox_group_comm_size_,
                  all_gather, table_outbox_group_comm, table_inbox_group_comm,
                  call, entry, gets_left, ret >>

\* What a release does to (pc, err, released) of p: the call via goes through
\* global_m_file_ when through_arena, and that pointer may be null.
DestructorRelease(p, c, h, via, through_arena) ==
  IF IsNull(h)
  THEN /\ pc' = [pc EXCEPT ![p] = DestructorAfter(c)]
       /\ UNCHANGED << err, released >>
  ELSE IF through_arena /\ global_m_file_[p] = "null"
  THEN /\ Fatal(p, "NullArena")
       /\ UNCHANGED released
  ELSE /\ pc' = [pc EXCEPT ![p] = DestructorAfter(c)]
       /\ released' = [released EXCEPT ![p] = Append(@, Release(c, via, h))]
       /\ UNCHANGED err

\* The handle after the step: set to NULL inside the guard, unless the
\* process died in the release.
DestructorHandleMutant(p, h, through_arena) == h
DestructorHandle(p, h, through_arena) ==
  IF ~IsNull(h) /\ through_arena /\ global_m_file_[p] = "null" THEN h ELSE NULL

\* if(table_outbox_ != NULL) { global_m_file_->DestroyPtr(...); table_outbox_ = NULL; }
DestructorOutbox(p) ==
  /\ JobAlive
  /\ pc[p] = "~table_outbox_"
  /\ DestructorRelease(p, pc[p], table_outbox_[p], "DestroyPtr", TRUE)
  /\ table_outbox_' = [table_outbox_ EXCEPT ![p] = DestructorHandle(p, @, TRUE)]
  /\ UNCHANGED << computation_group_comm, kd, tally, outstanding, comm_size, global_m_file_,
                  table_inbox_, owned_table_, local_n_entries_, global_tree_,
                  table_outbox_group_comm_size_, all_gather,
                  table_outbox_group_comm, table_inbox_group_comm,
                  call, entry, gets_left, ret >>

\* if(table_inbox_ != NULL) { global_m_file_->DestroyPtr(...); table_inbox_ = NULL; }
DestructorInbox(p) ==
  /\ JobAlive
  /\ pc[p] = "~table_inbox_"
  /\ DestructorRelease(p, pc[p], table_inbox_[p], "DestroyPtr", TRUE)
  /\ table_inbox_' = [table_inbox_ EXCEPT ![p] = DestructorHandle(p, @, TRUE)]
  /\ UNCHANGED << computation_group_comm, kd, tally, outstanding, comm_size, global_m_file_,
                  table_outbox_, owned_table_, local_n_entries_, global_tree_,
                  table_outbox_group_comm_size_, all_gather,
                  table_outbox_group_comm, table_inbox_group_comm,
                  call, entry, gets_left, ret >>

\* if(local_n_entries_ != NULL) { global_m_file_ ? Deallocate : delete[]; ... = NULL; }
DestructorLocalNEntries(p) ==
  /\ JobAlive
  /\ pc[p] = "~local_n_entries_"
  /\ DestructorRelease(p, pc[p], local_n_entries_[p],
                       IF global_m_file_[p] = "arena" THEN "Deallocate" ELSE "delete[]",
                       FALSE)
  /\ local_n_entries_' = [local_n_entries_ EXCEPT ![p] = DestructorHandle(p, @, FALSE)]
  /\ UNCHANGED << computation_group_comm, kd, tally, outstanding, comm_size, global_m_file_,
                  table_inbox_, table_outbox_, owned_table_, global_tree_,
                  table_outbox_group_comm_size_, all_gather,
                  table_outbox_group_comm, table_inbox_group_comm,
                  call, entry, gets_left, ret >>

\* if(owned_table_ != NULL) { global_m_file_ ? DestroyPtr : delete; ... = NULL; }
DestructorOwnedTable(p) ==
  /\ JobAlive
  /\ pc[p] = "~owned_table_"
  /\ DestructorRelease(p, pc[p], owned_table_[p],
                       IF global_m_file_[p] = "arena" THEN "DestroyPtr" ELSE "delete",
                       FALSE)
  /\ owned_table_' = [owned_table_ EXCEPT ![p] = DestructorHandle(p, @, FALSE)]
  /\ UNCHANGED << computation_group_comm, kd, tally, outstanding, comm_size, global_m_file_,
                  table_inbox_, table_outbox_, local_n_entries_, global_tree_,
                  table_outbox_group_comm_size_, all_gather,
                  table_outbox_group_comm, table_inbox_group_comm,
                  call, entry, gets_left, ret >>

\* if(global_tree_ != NULL) { delete global_tree_.get(); global_tree_ = NULL; }
DestructorTree(p) ==
  /\ JobAlive
  /\ pc[p] = "~global_tree_"
  /\ DestructorRelease(p, pc[p], global_tree_[p], "delete", FALSE)
  /\ global_tree_' = [global_tree_ EXCEPT ![p] = DestructorHandle(p, @, FALSE)]
  /\ UNCHANGED << computation_group_comm, kd, tally, outstanding, comm_size, global_m_file_,
                  table_inbox_, table_outbox_, owned_table_, local_n_entries_,
                  table_outbox_group_comm_size_, all_gather,
                  table_outbox_group_comm, table_inbox_group_comm,
                  call, entry, gets_left, ret >>

-----------------------------------------------------------------------------
Next ==
  \/ \E p \in Ranks : \E n \in PartitionSizes(p) : Init(p, n)
  \/ \E p \in Ranks : InitAllGather(p)
  \/ \E p \in Ranks, r \in RankArgs : \E i \in PointIdArgs(p, r) : get(p, r, i)
  \/ \E p \in Ranks : getRecv(p)
  \/ \E p \in Ranks : RunOutbox(p)
  \/ \E p \in Ranks : RunInbox(p)
  \/ \E p \in Ranks : RunInboxNotify(p)
  \/ \E p \in Ranks : UnlockPointinTableInbox(p)

\* The point-fetch protocol.
Spec == Constructor /\ [][Next]_vars

NextApi ==
  \/ \E p \in Ranks : \E n \in PartitionSizes(p) : Init(p, n)
  \/ \E p \in Ranks : InitAllGather(p)
  \/ \E p \in Ranks : Save(p)
  \/ \E p \in Ranks : IndexData(p)
  \/ \E p \in Ranks : CallIsIndexed(p)
  \/ \E p \in Ranks : CallGetTree(p)
  \/ \E p \in Ranks, op \in NodeAccessors : CallNodeAccessor(p, op)
  \/ \E p \in Ranks : PrintTree(p)
  \/ \E p \in Ranks, r \in RankInArgs : CallLocalNEntries(p, r)
  \/ \E p \in Ranks : CallLocalNEntriesSelf(p)

\* The protocol with its loops kept running: every process goes on taking
\* rounds of its two mailbox loops while there is a message for them, and a
\* blocking call (the all_gather of Init, the receive of get) returns once
\* what it waits for is there.
Fairness ==
  \A p \in 0 .. (MaxProcs - 1) :
    /\ WF_vars(p \in Ranks /\ InitAllGather(p))
    /\ WF_vars(p \in Ranks /\ RunOutbox(p))
    /\ WF_vars(p \in Ranks /\ RunInbox(p))
    /\ WF_vars(p \in Ranks /\ RunInboxNotify(p))
    /\ WF_vars(p \in Ranks /\ getRecv(p))

SpecFair == Constructor /\ [][Next]_vars /\ Fairness

\* Initialisation, indexing and the accessors.
SpecApi == Constructor /\ [][NextApi]_vars

\* The protocol together with the calls that are meant to leave it alone.
NextLife ==
  \/ Next
  \/ \E p \in Ranks : Save(p)
  \/ \E p \in Ranks : IndexData(p)

SpecLife == Constructor /\ [][NextLife]_vars

\* The protocol next to the numerical work.
NextChannels ==
  \/ Next
  \/ \E p, q \in Ranks : ComputationSend(p, q)
  \/ \E q \in Ranks : ComputationRecv(q)

SpecChannels == Constructor /\ [][NextChannels]_vars

\* The protocol together with the destructor.
NextTeardown ==
  \/ Next
  \/ \E p \in Ranks : Destructor(p)
  \/ \E p \in Ranks : DestructorOutbox(p)
  \/ \E p \in Ranks : DestructorInbox(p)
  \/ \E p \in Ranks : DestructorLocalNEntries(p)
  \/ \E p \in Ranks : DestructorOwnedTable(p)
  \/ \E p \in Ranks : DestructorTree(p)

SpecTeardown == Constructor /\ [][NextTeardown]_vars

-----------------------------------------------------------------------------
(* nbr_utils::LoadKdTree.  kd is the invocation in progress: pc is the       *)
(* statement it executes next, log the calls it has made on its arguments,   *)
(* done the results of the invocations that returned before it.              *)

\* Largest number of points nbr_utils::Load leaves in points_out.
MaxKdPoints == 2

\* The values of success_t.
success_t == {"SUCCESS_PASS", "SUCCESS_WARN", "SUCCESS_FAIL"}

\* The "vectors_per_block" parameter of the module; 256 when it is absent.
VectorsPerBlockArgs == {1, 256}

\* The submodules SerialDualTreeMain loads, in its order.
KdModules == << "q", "r" >>

\* Everything but kd.
NotKd == << comm_size, global_m_file_, pc, err, table_inbox_, table_outbox_,
            owned_table_, local_n_entries_, global_tree_,
            table_outbox_group_comm_size_, all_gather,
            table_outbox_group_comm, table_inbox_group_comm,
            call, entry, gets_left, ret, computation_group_comm, released,
            outstanding, tally >>

\* The results of the invocations that have returned.
KdDone == IF kd.pc = "none" THEN << >> ELSE kd.done

\* An invocation at its first statement.
KdEntry == [pc |-> "Load", module |-> KdModules[Len(KdDone) + 1],
            vectors_per_block |-> 0,
            success |-> "none", n_points |-> 0, length |-> 0,
            timers |-> {}, first_point |-> "none", reading |-> {},
            param_dim |-> 0, nodes_out |-> "uninitialised", log |-> << >>,
            result |-> "none", done |-> KdDone]

\* The test on the result of Load.
LoadKdTreeAbortsMutant(success) == success = "SUCCESS_FAIL"
LoadKdTreeAborts(success) == success # "SUCCESS_PASS"

\* LoadKdTree(module, param, points_out, nodes_out) up to the call of Load:
\* reads vectors_per_block and starts the "read" timer.  SerialDualTreeMain
\* calls it for "q" and, once that has returned, for "r".
LoadKdTree(vectors_per_block) ==
  /\ \/ kd.pc = "none"
     \/ kd.pc = "returned" /\ Len(kd.done) < Len(KdModules)
  /\ kd' = [KdEntry EXCEPT !.vectors_per_block = vectors_per_block,
                           !.timers = {"read"}]
  /\ UNCHANGED NotKd

\* success = nbr_utils::Load(fname, points_out, vectors_per_block), then the
\* "read" timer stops.  Load is outside this code: its result and what it
\* leaves in points_out are inputs.
LoadKdTreeLoad(success, n_points, length) ==
  /\ kd.pc = "Load"
  /\ kd' = [kd EXCEPT !.pc = "check",
                      !.success = success,
                      !.n_points = n_points,
                      !.length = length,
                      !.timers = @ \ {"read"},
                      !.log = Append(@, "Load")]
  /\ UNCHANGED NotKd

\* if (success != SUCCESS_PASS) abort();
LoadKdTreeCheck ==
  /\ kd.pc = "check"
  /\ kd' = IF LoadKdTreeAborts(kd.success)
           THEN [kd EXCEPT !.pc = "aborted", !.log = Append(@, "abort")]
           ELSE [kd EXCEPT !.pc = "StartRead"]
  /\ UNCHANGED NotKd

\* first_point = points_out->StartRead(0).  When Load has left no point the
\* element read does not exist: the process ends or goes on with whatever is
\* there.
StartReadOutcomes(n_points) ==
  IF n_points > 0 THEN {"point"} ELSE {"crash", "garbage"}

LoadKdTreeStartRead ==
  /\ kd.pc = "StartRead"
  /\ \E o \in StartReadOutcomes(kd.n_points) :
       kd' = IF o = "crash"
             THEN [kd EXCEPT !.pc = "fatal"]
             ELSE [kd EXCEPT !.pc = "AnalyzePoint",
                             !.first_point = o,
                             !.reading = @ \cup {0},
                             !.log = Append(@, "StartRead")]
  /\ UNCHANGED NotKd

\* The length of *first_point: the length Load gave the points, or anything
\* when the element does not exist.
FirstPointLengths ==
  IF kd.first_point = "point" THEN {kd.length} ELSE 0 .. MaxKdPoints

\* param->AnalyzePoint(*first_point); example_node = new Node();
\* example_node->Init(first_point->length(), *param);
\* nodes_out->Init(*example_node, 0, 256); delete example_node;
LoadKdTreeExampleNode ==
  /\ kd.pc = "AnalyzePoint"
  /\ \E dim \in FirstPointLengths :
       kd' = [kd EXCEPT !.pc = "StopRead",
                        !.param_dim = dim,
                        !.nodes_out = "initialised",
                        !.log = Append(@, "AnalyzePoint")]
  /\ UNCHANGED NotKd

\* points_out->StopRead(0)
LoadKdTreeStopRead ==
  /\ kd.pc = "StopRead"
  /\ kd' = [kd EXCEPT !.pc = "InitBuild",
                      !.reading = @ \ {0},
                      !.log = Append(@, "StopRead")]
  /\ UNCHANGED NotKd

\* The "tree" timer around builder.InitBuild(module, param, points_out,
\* nodes_out).
LoadKdTreeInitBuild ==
  /\ kd.pc = "InitBuild"
  /\ kd' = [kd EXCEPT !.pc = "return",
                      !.nodes_out = "built",
                      !.log = Append(@, IF kd.reading = {}
                                        THEN "InitBuild"
                                        ELSE "InitBuildWhileReading")]
  /\ UNCHANGED NotKd

\* return SUCCESS_PASS;
LoadKdTreeReturn ==
  /\ kd.pc = "return"
  /\ kd' = [kd EXCEPT !.pc = "returned",
                      !.result = "SUCCESS_PASS",
                      !.log = Append(@, "return"),
                      !.done = Append(@, "SUCCESS_PASS")]
  /\ UNCHANGED NotKd

NextKd ==
  \/ \E v \in VectorsPerBlockArgs : LoadKdTree(v)
  \/ \E success \in success_t, n \in 0 .. MaxKdPoints, len \in 1 .. MaxKdPoints :
       LoadKdTreeLoad(success, n, len)
  \/ LoadKdTreeCheck
  \/ LoadKdTreeStartRead
  \/ LoadKdTreeExampleNode
  \/ LoadKdTreeStopRead
  \/ LoadKdTreeInitBuild
  \/ LoadKdTreeReturn

SpecKd == Constructor /\ [][NextKd]_vars

-----------------------------------------------------------------------------
(* Properties. *)

\* The point rank r holds at local index i of its partition.
OwnersPoint(r, i) == TablePoint(owned_table_[r], i)

\* The id lies inside the partition of rank r.
InPartition(r, i) == i >= 0 /\ i < Len(owned_table_[r].points)

\* The call of p is (or was) a fetch from another rank.
RemoteCall(p) == call[p].status \in {"pending", "returned"} /\ call[p].rank # p

Requests(p) == {m \in table_outbox_group_comm : m.src = p}
Handling(p) == HandlingIn(table_inbox_[p])
Points(p) == {m \in table_inbox_group_comm : m.dst = p /\ m.tag = "POINT"}
Notifications(p) ==
  {m \in table_inbox_group_comm :
     m.dst = p /\ m.tag = "RECEIVE_POINT_FROM_TABLE_INBOX"}

\* C1: a get that has returned, on the local path or through the request and
\* notification path, left in entry an alias of exactly the point the named
\* rank holds at the named index, and the alias reads that point for as long
\* as the caller has not released it.
C1_GetReturnsOwnersPoint ==
  \A q \in Ranks :
    call[q].status = "returned" =>
      /\ call[q].rank \in Ranks
      /\ InPartition(call[q].rank, call[q].id)
      /\ entry[q].buf = (IF call[q].rank = q THEN "owned" ELSE "inbox")
      /\ entry[q].rank = call[q].rank /\ entry[q].id = call[q].id
      /\ AliasValues(q) \subseteq {OwnersPoint(call[q].rank, call[q].id)}
      /\ entry[q].held => AliasValues(q) # {}

C1_Witness ==
  \E q, l \in Ranks :
    /\ q # l
    /\ call[l].status = "returned" /\ call[l].rank = l
    /\ AliasValues(l) = {PointOf(l, call[l].id)}
    /\ call[q].status = "returned" /\ call[q].rank # q /\ call[q].id = 1
    /\ entry[q].held
    /\ AliasValues(q) = {PointOf(call[q].rank, 1)}

\* C2: a get that names the caller's own rank reads the caller's own table
\* and leaves the messages in flight on both communicators as they were.
C2_LocalGetSendsNothing ==
  [][\A p \in Ranks : \A i \in -1 .. MaxPoints :
       get(p, p, i) =>
         /\ table_outbox_group_comm' = table_outbox_group_comm
         /\ table_inbox_group_comm' = table_inbox_group_comm
         /\ pc'[p] # "get_recv"
         /\ call'[p].status = "returned" => entry'[p].buf = "owned"]_vars

C2_Witness ==
  \E p, q \in Ranks :
    /\ p # q
    /\ call[p].status = "returned" /\ call[p].rank = p
    /\ entry[p].buf = "owned"
    /\ pc[q] = "get_recv"
    /\ Requests(q) # {}

\* C3: a fetch from another rank sends one request, carrying the caller's
\* rank and the point id, to the named rank on the outbox communicator; the
\* caller then stays blocked until the notification on the inbox communicator
\* is consumed, and only the step that consumes it takes the alias.
C3_RequestThenAckThenAlias ==
  /\ \A m \in table_outbox_group_comm :
        /\ m.tag = "REQUEST_POINT_FROM_TABLE_OUTBOX"
        /\ call[m.src].status = "pending"
        /\ m.dst = call[m.src].rank /\ m.rank = m.src /\ m.id = call[m.src].id
  /\ \A p \in Ranks :
        RemoteCall(p) =>
          /\ call[p].steps \in {<< "send" >>, << "send", "recv", "alias" >>}
          /\ (call[p].status = "pending") <=> (call[p].steps = << "send" >>)
          /\ call[p].status = "pending" => pc[p] \in {"get_recv", "fatal"}
          /\ call[p].status = "returned" => pc[p] # "get_recv"
          /\ LET travelling == Cardinality(Requests(p)) + Cardinality(Points(p))
                                 + Cardinality(Handling(p))
                                 + Cardinality(Notifications(p))
             IN  /\ travelling <= 1
                 /\ (call[p].status = "pending" /\ JobAlive /\ call[p].rank \in Ranks)
                      => travelling = 1
                 /\ call[p].status = "returned" => travelling = 0

C3_Witness ==
  \E p, q \in Ranks :
    /\ p # q
    /\ RemoteCall(p) /\ call[p].steps = << "send", "recv", "alias" >>
    /\ entry[p].buf = "inbox"
    /\ RemoteCall(q) /\ call[q].steps = << "send" >>
    /\ Notifications(q) # {}

\* C4 as stated: the receive that a fetch from another rank blocks in names
\* the owner's rank as the source of the notification.
C4_AckNamedFromOwner ==
  \A p \in Ranks : RemoteCall(p) => call[p].recv_from = call[p].rank

\* C4, amended: the receive that a fetch from another rank blocks in names
\* the caller's own rank as the source: the notification that unblocks the
\* call was sent by the caller's rank, and every notification in flight goes
\* from a rank to itself.
C4_AckNamedFromCaller ==
  /\ \A p \in Ranks :
        RemoteCall(p) =>
          /\ call[p].recv_from = p
          /\ call[p].status = "returned" => call[p].ack_from = p
  /\ \A m \in table_inbox_group_comm :
        m.tag = "RECEIVE_POINT_FROM_TABLE_INBOX" => m.src = m.dst

C4_Witness ==
  \E p \in Ranks :
    /\ RemoteCall(p) /\ call[p].status = "returned"
    /\ call[p].ack_from = p /\ call[p].ack_from # call[p].rank

\* C5: when two different processes have fetched the same point of a third
\* rank, each alias reads the owner's point, and it keeps reading it until
\* the process that holds it releases it: the other requester's unlock does
\* not touch it.
C5_ConcurrentGetsSamePoint ==
  \A q1, q2 \in Ranks :
    ( /\ q1 # q2
      /\ call[q1].status = "returned" /\ call[q2].status = "returned"
      /\ call[q1].rank = call[q2].rank /\ call[q1].id = call[q2].id
      /\ call[q1].rank \notin {q1, q2} )
    => \A q \in {q1, q2} :
         /\ AliasValues(q) \subseteq {OwnersPoint(call[q].rank, call[q].id)}
         /\ entry[q].held => AliasValues(q) = {OwnersPoint(call[q].rank, call[q].id)}

C5_Witness ==
  \E q1, q2 \in Ranks :
    /\ q1 # q2
    /\ call[q1].status = "returned" /\ call[q2].status = "returned"
    /\ call[q1].rank = call[q2].rank /\ call[q1].id = call[q2].id
    /\ call[q1].rank \notin {q1, q2}
    /\ ~entry[q1].held /\ table_inbox_[q1].staged = {}
    /\ entry[q2].held
    /\ AliasValues(q2) = {PointOf(call[q2].rank, call[q2].id)}

\* C6 as stated: a get for an id outside the partition of the named rank
\* fails with IndexOutOfRange, on the local path and on the path through the
\* owner.  Once the call is past the point where the id is looked up (the
\* request, if there is one, has been taken by the owner), the call has
\* failed and the caller has ended with IndexOutOfRange.
C6_OutOfRangeFailsInGet ==
  \A p \in Ranks :
    ( /\ call[p].status # "none"
      /\ call[p].rank \in Ranks
      /\ ~InPartition(call[p].rank, call[p].id)
      /\ Requests(p) = {} )
    => /\ call[p].status = "failed"
       /\ pc[p] = "fatal" /\ err[p] = "IndexOutOfRange"

\* C7: local_n_entries called with a rank at or past the group size takes
\* the invalid-rank branch: the caller gets the sentinel -1, which is no
\* entry count, and the array is not read.
C7_InvalidRankReported ==
  /\ \A p \in Ranks : \A r \in RankInArgs :
        r >= table_outbox_group_comm_size_[p] =>
          local_n_entries(p, r) = {[kind |-> "InvalidRank", value |-> -1]}
  /\ ( /\ ret.op = "local_n_entries"
       /\ pc[ret.proc] = "ready"
       /\ ret.arg >= comm_size )
     => ret.kind = "InvalidRank" /\ ret.value < 0

C7_Witness ==
  /\ ret.op = "local_n_entries"
  /\ pc[ret.proc] = "ready"
  /\ ret.arg = comm_size
  /\ ret.kind = "InvalidRank" /\ ret.value = -1

\* Init has returned on process p.
InitDone(p) ==
  ~IsNull(local_n_entries_[p]) /\ pc[p] \notin {"constructed", "Init_all_gather"}

\* C8: once Init has returned on a process, local_n_entries(r) is, for every
\* rank r, the number of points rank r loaded, whatever get, mailbox, unlock,
\* IndexData and Save steps have been taken since; so the counts add up to
\* the number of points loaded over all ranks.
C8_EntryCountsMatchPartitions ==
  \A p \in Ranks :
    InitDone(p) =>
      /\ \A r \in Ranks :
            local_n_entries(p, r) =
              {[kind |-> "value", value |-> Len(owned_table_[r].points)]}
      /\ local_n_entries_self(p) =
            {[kind |-> "value", value |-> Len(owned_table_[p].points)]}
      /\ SumUpTo(local_n_entries_[p].data, comm_size - 1) = Loaded
      /\ Loaded = SumUpTo([r \in Ranks |-> Len(owned_table_[r].points)],
                          comm_size - 1)

C8_Witness ==
  \E p, o \in Ranks :
    /\ p # o
    /\ InitDone(p)
    /\ Len(owned_table_[o].points) = MaxPoints
    /\ \A r \in Ranks \ {o} : Len(owned_table_[r].points) = 0
    /\ call[p].status = "returned" /\ call[p].rank = o
    /\ ~entry[p].held
    /\ ret.op = "IndexData"

\* C9 as stated: after IndexData has been called on an initialised table,
\* IsIndexed() is true and get_tree() is not null.
C9_IndexDataIndexes ==
  (ret.op = "IndexData" /\ pc[ret.proc] = "ready")
    => IsIndexed(ret.proc) /\ ~IsNull(get_tree(ret.proc))

\* C10 as stated: while IsIndexed() is false on an initialised table, a
\* spatial-index accessor gives its caller the UnindexedAccess condition, and
\* neither a value nor the outcome of an access through the absent tree.
C10_UnindexedAccessReported ==
  ( /\ ret.op \in NodeAccessors \cup {"get_tree", "PrintTree"}
    /\ InitDone(ret.proc)
    /\ ~IsIndexed(ret.proc) )
  => ret.kind = "UnindexedAccess"

\* The place of member c in an order of release.
Position(order, c) == CHOOSE i \in 1 .. Len(order) : order[i] = c

\* The releases logged so far follow the order, each member at most once.
ReleasedInOrder(log, order) ==
  \A i, j \in 1 .. Len(log) :
    i < j => Position(order, log[i].what) < Position(order, log[j].what)

\* The members a process holds (non-null handles), as the destructor names them.
Held(p) ==
  {c \in DestructorSteps :
     ~IsNull(CASE c = "~table_outbox_" -> table_outbox_[p]
               [] c = "~table_inbox_" -> table_inbox_[p]
               [] c = "~local_n_entries_" -> local_n_entries_[p]
               [] c = "~owned_table_" -> owned_table_[p]
               [] c = "~global_tree_" -> global_tree_[p])}

Logged(p) == {released[p][i].what : i \in 1 .. Len(released[p])}

\* C11 as stated: teardown releases the Inbox, then the Outbox, then the
\* entry-count array, then the owned partition, then the spatial index.
C11_InboxBeforeOutbox ==
  \A p \in Ranks :
    ReleasedInOrder(released[p],
                    << "~table_inbox_", "~table_outbox_", "~local_n_entries_",
                       "~owned_table_", "~global_tree_" >>)

\* C11, amended: teardown releases the Outbox, then the Inbox, then the
\* entry-count array, then the owned partition, then the spatial index; a
\* member that is not held is passed over, every held member is released by
\* the time the destructor is done, and a member is held or released, never
\* both.
C11_OutboxBeforeInbox ==
  \A p \in Ranks :
    /\ ReleasedInOrder(released[p],
                       << "~table_outbox_", "~table_inbox_", "~local_n_entries_",
                          "~owned_table_", "~global_tree_" >>)
    /\ Held(p) \cap Logged(p) = {}
    /\ pc[p] = "destroyed" => Held(p) = {}
    /\ pc[p] \in DestructorSteps =>
         \A c \in Held(p) :
           Position(<< "~table_outbox_", "~table_inbox_", "~local_n_entries_",
                       "~owned_table_", "~global_tree_" >>, c)
             >= Position(<< "~table_outbox_", "~table_inbox_", "~local_n_entries_",
                            "~owned_table_", "~global_tree_" >>, pc[p])

C11_Witness ==
  \E p \in Ranks :
    /\ pc[p] = "destroyed"
    /\ Len(released[p]) = 4
    /\ released[p][1].what = "~table_outbox_"
    /\ released[p][2].what = "~table_inbox_"
    /\ released[p][3].what = "~local_n_entries_"
    /\ released[p][4].what = "~owned_table_"

\* The destructor of p has freed the owned partition.
PartitionFreed(p) == "~owned_table_" \in Logged(p)

\* C12: once the destructor has freed the owned partition, the Outbox and the
\* Inbox of that process have been destroyed before it and their handles are
\* null, and the process takes no serve or fetch step any more; as long as a
\* mailbox handle is not null, the partition behind it is there.
C12_NoMailboxWithoutPartition ==
  \A p \in Ranks :
    /\ PartitionFreed(p) =>
         /\ IsNull(table_inbox_[p]) /\ IsNull(table_outbox_[p])
         /\ IsNull(owned_table_[p])
         /\ ~Running(p)
         /\ \A i \in 1 .. Len(released[p]) :
              released[p][i].what \in {"~table_inbox_", "~table_outbox_"} =>
                \E j \in 1 .. Len(released[p]) :
                  i < j /\ released[p][j].what = "~owned_table_"
    /\ (~IsNull(table_inbox_[p]) \/ ~IsNull(table_outbox_[p])) =>
         /\ ~IsNull(owned_table_[p])
         /\ ~PartitionFreed(p)

C12_Witness ==
  \E p, q \in Ranks :
    /\ p # q
    /\ PartitionFreed(p)
    /\ {"~table_inbox_", "~table_outbox_"} \subseteq Logged(p)
    /\ IsNull(table_inbox_[p]) /\ IsNull(table_outbox_[p])
    /\ \E m \in Requests(q) : m.dst = p

\* C13 as stated: a get that names a rank outside the communicator group ends
\* its caller in the fatal AddressingError condition; no request travels and
\* the caller does not block in the receive.
C13_InvalidRankIsAddressingError ==
  \A p \in Ranks :
    (call[p].status # "none" /\ call[p].rank \notin Ranks) =>
      /\ call[p].status = "failed"
      /\ pc[p] = "fatal" /\ err[p] = "AddressingError"
      /\ Requests(p) = {}

\* The call of p is blocked in a fetch of a point that exists.
BlockedInFetch(p) ==
  /\ p \in Ranks
  /\ pc[p] = "get_recv"
  /\ call[p].rank \in Ranks
  /\ InPartition(call[p].rank, call[p].id)

\* C14: with the mailbox loops of every process kept running, every get that
\* is blocked in the fetch of a point another rank holds returns, or the job
\* has been ended by a fatal condition; this includes processes that wait for
\* each other's points at the same time.  A blocked get leaves the receive in
\* no other way than by consuming its notification: there is no timeout.
C14_RemoteGetReturns ==
  /\ \A p \in 0 .. (MaxProcs - 1) :
       BlockedInFetch(p) ~>
         (p \in Ranks /\ (call[p].status = "returned" \/ ~JobAlive))
  /\ [][\A p \in Ranks :
          (pc[p] = "get_recv" /\ pc'[p] # "get_recv") =>
            \/ pc'[p] = "fatal"
            \/ /\ pc'[p] = "ready" /\ call'[p].status = "returned"
               /\ Notifications(p) # {}
               /\ table_inbox_group_comm' \subseteq table_inbox_group_comm
               /\ table_inbox_group_comm' # table_inbox_group_comm]_vars

C14_Witness ==
  \E p, q \in Ranks :
    /\ p # q
    /\ BlockedInFetch(p) /\ call[p].rank = q
    /\ BlockedInFetch(q) /\ call[q].rank = p
    /\ Points(p) # {}
    /\ Requests(q) # {}

\* The staged entries of process p.
StagedIn(inbox) == IF IsNull(inbox) THEN {} ELSE inbox.staged
Staged(p) == StagedIn(table_inbox_[p])

\* The points process p has fetched, or is fetching, and not yet unlocked.
FetchedNotUnlocked(p) == tally[p].fetched + outstanding[p] - tally[p].unlocked

NotificationsIn(comm, p) ==
  {m \in comm : m.dst = p /\ m.tag = "RECEIVE_POINT_FROM_TABLE_INBOX"}

\* The entry staged for the point process p is fetching (or fetched last).
StagedForCall(p) == TableInboxGetPoint(table_inbox_[p], call[p].rank, call[p].id)

ProtocolState ==
  << table_outbox_group_comm, table_inbox_group_comm, table_inbox_, call, entry >>

\* C17: requests travel only on the outbox communicator and notifications
\* (with the points they announce) only on the inbox communicator; the
\* computation communicator carries computation messages only.  A step of the
\* protocol leaves the computation communicator as it is, and a send or
\* receive of the computation leaves the protocol as it is, so a computation
\* message is never taken for a request or a notification.
C17_ChannelsNeverMix ==
  /\ [](/\ \A m \in table_outbox_group_comm :
             m.tag = "REQUEST_POINT_FROM_TABLE_OUTBOX"
        /\ \A m \in table_inbox_group_comm :
             m.tag \in {"POINT", "RECEIVE_POINT_FROM_TABLE_INBOX"}
        /\ \A m \in computation_group_comm : m.tag = "COMPUTATION")
  /\ [][/\ ProtocolState' # ProtocolState =>
             computation_group_comm' = computation_group_comm
        /\ computation_group_comm' # computation_group_comm =>
             /\ ProtocolState' = ProtocolState
             /\ pc' = pc]_vars

C17_Witness ==
  \E p \in Ranks :
    /\ pc[p] = "get_recv"
    /\ Notifications(p) # {}
    /\ \E m \in computation_group_comm : m.dst = p /\ m.src = call[p].rank

\* C18: once a process has loaded its partition, no get, no round of a
\* mailbox loop, no notification and no unlock of any process changes the
\* points or the size of it: the table stays the file that was loaded, and a
\* requester only ever holds an alias into a staging buffer.
C18_PartitionsNeverMutated ==
  /\ [][\A p \in Ranks :
          ~IsNull(owned_table_[p]) => owned_table_'[p] = owned_table_[p]]_vars
  /\ [](\A p \in 0 .. (MaxProcs - 1) :
          (p \in Ranks /\ ~IsNull(owned_table_[p])) =>
            /\ owned_table_[p].points = FileOf(p, Len(owned_table_[p].points))
            /\ owned_table_[p].n_attributes = AttrCount
            /\ (call[p].status = "returned" /\ call[p].rank # p) =>
                 entry[p].buf = "inbox")

C18_Witness ==
  \E p, r \in Ranks :
    /\ p # r
    /\ call[p].status = "returned" /\ call[p].rank = r /\ call[p].id = 1
    /\ ~entry[p].held
    /\ call[r].status = "returned" /\ call[r].rank = r
    /\ owned_table_[r].points = FileOf(r, MaxPoints)

\* C19 as stated: every component a table holds lives in the arena and is
\* released through the arena, and neither Init nor the destructor uses the
\* arena pointer while it is null.
C19_EverythingInArena ==
  \A p \in Ranks :
    /\ ~IsNull(owned_table_[p]) => owned_table_[p].loc = "arena"
    /\ ~IsNull(table_inbox_[p]) => table_inbox_[p].loc = "arena"
    /\ ~IsNull(table_outbox_[p]) => table_outbox_[p].loc = "arena"
    /\ ~IsNull(local_n_entries_[p]) => local_n_entries_[p].loc = "arena"
    /\ ~IsNull(global_tree_[p]) => global_tree_[p].loc = "arena"
    /\ \A i \in 1 .. Len(released[p]) :
         released[p][i].loc = "arena"
           /\ released[p][i].via \in {"DestroyPtr", "Deallocate"}
    /\ err[p] # "NullArena"

\* Everything but the record of the last call.
AllButRet ==
  << comm_size, global_m_file_, pc, err, table_inbox_, table_outbox_,
     owned_table_, local_n_entries_, global_tree_,
     table_outbox_group_comm_size_, all_gather, table_outbox_group_comm,
     table_inbox_group_comm, call, entry, gets_left, computation_group_comm,
     released, outstanding, tally, kd >>

\* C20: Save changes nothing: whatever the state it is called in, the
\* handles, the partitions, the entry counts, the staged entries and the
\* messages in flight are after the call what they were before it, and so
\* is the value of IsIndexed().
C20_SaveIsNoOp ==
  [][\A p \in Ranks :
       Save(p) =>
         /\ AllButRet' = AllButRet
         /\ (~IsNull(global_tree_'[p])) = IsIndexed(p)]_vars

C20_Witness ==
  /\ ret.op = "Save"
  /\ pc[ret.proc] = "ready"
  /\ ~IsIndexed(ret.proc)
  /\ Staged(ret.proc) # {}
  /\ table_outbox_group_comm # {}

\* C21: a process has at most one request outstanding.  The requests it has
\* sent less the notifications it has consumed is 0 or 1, and it is 1 exactly
\* while its get has not returned: the caller is blocked in the receive (or
\* was ended there by a fatal condition), and no more than that one request
\* of it is on the communicator.
C21_AtMostOneOutstanding ==
  \A p \in Ranks :
    /\ outstanding[p] \in {0, 1}
    /\ (outstanding[p] = 1) <=> (call[p].status = "pending")
    /\ outstanding[p] = 1 => pc[p] \in {"get_recv", "fatal"}
    /\ pc[p] = "get_recv" => outstanding[p] = 1
    /\ Cardinality(Requests(p)) <= outstanding[p]

C21_Witness ==
  \E p, q \in Ranks :
    /\ p # q
    /\ outstanding[p] = 1 /\ pc[p] = "get_recv" /\ Requests(p) = {}
    /\ outstanding[q] = 0 /\ RemoteCall(q) /\ call[q].status = "returned"
    /\ call[p].rank = call[q].rank

\* The members process p held when its destructor started: what Init
\* constructed, and nothing for a table on which Init was never called.
HeldAtStart(p) ==
  IF table_outbox_group_comm_size_[p] = -1
  THEN {}
  ELSE {"~table_outbox_", "~table_inbox_", "~local_n_entries_", "~owned_table_"}

\* C22: the destructor releases no member twice; at every point of it the
\* members still held and the members released make up, without overlap, what
\* was held when it started; when it is done every handle is null and every
\* member held at the start has been released once.  On a table on which Init
\* was never called it releases nothing.
C22_ReleasedExactlyOnce ==
  \A p \in Ranks :
    /\ \A i, j \in 1 .. Len(released[p]) :
         i # j => released[p][i].what # released[p][j].what
    /\ pc[p] \in DestructorSteps \cup {"destroyed"} =>
         /\ Held(p) \cup Logged(p) = HeldAtStart(p)
         /\ Held(p) \cap Logged(p) = {}
    /\ pc[p] = "destroyed" =>
         /\ IsNull(table_inbox_[p]) /\ IsNull(table_outbox_[p])
         /\ IsNull(local_n_entries_[p]) /\ IsNull(owned_table_[p])
         /\ IsNull(global_tree_[p])
         /\ Logged(p) = HeldAtStart(p)
         /\ Len(released[p]) = Cardinality(HeldAtStart(p))
    /\ pc[p] \notin DestructorSteps \cup {"destroyed"} => released[p] = << >>

C22_Witness ==
  \E p, q \in Ranks :
    /\ p # q
    /\ pc[p] = "destroyed"
    /\ Len(released[p]) = 4
    /\ \A i \in 1 .. 4 : released[p][i].loc = "arena"
    /\ Held(p) = {}
    /\ pc[q] = "ready" /\ Cardinality(Held(q)) = 4

\* C23 as stated: a call of local_n_entries(rank) with any integer rank, on a
\* table before or after Init, either takes the invalid-rank branch or reads
\* an element of the gathered array that exists; it never reads outside it.
C23_ReadsInsideArray ==
  ret.op = "local_n_entries" =>
    \/ ret.kind = "InvalidRank"
    \/ /\ ret.kind = "value"
       /\ ~IsNull(local_n_entries_[ret.proc])
       /\ ret.arg \in 0 .. (table_outbox_group_comm_size_[ret.proc] - 1)

\* The places of event e in the log of the invocation.
KdAt(e) == {i \in 1 .. Len(kd.log) : kd.log[i] = e}

\* C24: LoadKdTree gives its caller no other result than SUCCESS_PASS.  When
\* Load has returned anything else the invocation goes from the test to
\* abort, having opened no read and run no build.  An invocation that has
\* returned has run the build once, after the one read of point 0 that
\* StartRead(0) opened was closed by StopRead(0), and returned SUCCESS_PASS.
C24_ReturnsOnlySuccessPass ==
  kd.pc # "none" =>
  /\ kd.result \in {"none", "SUCCESS_PASS"}
  /\ \A i \in 1 .. Len(kd.done) : kd.done[i] = "SUCCESS_PASS"
  /\ (kd.pc \notin {"none", "Load", "check"} /\ kd.success # "SUCCESS_PASS") =>
       /\ kd.pc = "aborted"
       /\ kd.result = "none"
       /\ kd.log = << "Load", "abort" >>
       /\ kd.reading = {} /\ kd.first_point = "none"
       /\ kd.nodes_out = "uninitialised"
  /\ kd.pc = "aborted" => kd.success # "SUCCESS_PASS"
  /\ KdAt("InitBuildWhileReading") = {}
  /\ \A b \in KdAt("InitBuild") :
       /\ KdAt("StartRead") = {2}
       /\ \E c \in KdAt("StopRead") : c > 2 /\ c < b
  /\ kd.pc = "returned" =>
       /\ kd.result = "SUCCESS_PASS" /\ kd.success = "SUCCESS_PASS"
       /\ kd.log = << "Load", "StartRead", "AnalyzePoint", "StopRead",
                      "InitBuild", "return" >>
       /\ kd.reading = {} /\ kd.nodes_out = "built"
       /\ kd.timers = {}

C24_Witness ==
  /\ kd.pc = "aborted"
  /\ kd.module = "r"
  /\ kd.success = "SUCCESS_WARN"
  /\ kd.done = << "SUCCESS_PASS" >>
  /\ kd.n_points > 0

=============================================================================
